---- MODULE Spec2Model ----
(***************************************************************************)
(* Business-strategy generator: the generator page (Page), the generate    *)
(* route (POST /api/generate) and the calendar page (CalendarPage), with   *)
(* the browser's localStorage between them.                                *)
(*                                                                         *)
(* JavaScript values are tagged records; a JavaScript string is the        *)
(* sequence of its UTF-16 code units.  An object with fixed field names    *)
(* has tag "obj" (a function from field names), an object whose keys are   *)
(* computed strings (the checks mapping) has tag "map" (a function from    *)
(* code-unit sequences); typeof reports "object" for both.                 *)
(***************************************************************************)
EXTENDS Integers, Sequences, FiniteSets, TLC

VARIABLES
    localStorage,   \* the browser store: key (string) -> stored text
    page,           \* which page is mounted: "home" or "calendar"
    idea,           \* Page: useState idea
    inputs,         \* Page: useState inputs
    loading,        \* Page: useState loading (the busy flag)
    error,          \* Page: useState error
    plan,           \* Page: useState plan
    inflight,       \* the onGenerate calls awaiting their fetch, each with whether its Page is still mounted
    gens,           \* number of generation requests sent so far
    calPlan,        \* CalendarPage: useState plan
    pid,            \* CalendarPage: useState pid
    checks,         \* CalendarPage: useState checks
    calPc,          \* CalendarPage: which effects are still to run
    saved,          \* history: idea -> checks mapping last persisted for a plan of that idea
    arg,            \* argument of the pure function under check
    res             \* its result

vars == <<localStorage, page, idea, inputs, loading, error, plan, inflight,
          gens, calPlan, pid, checks, calPc, saved, arg, res>>

appVars == <<localStorage, page, idea, inputs, loading, error, plan, inflight,
             gens, calPlan, pid, checks, calPc, saved>>

---------------------------------------------------------------------------
(* JavaScript values *)

Undefined == [t |-> "undefined"]
JNull == [t |-> "null"]
JBool(b) == [t |-> "bool", v |-> b]
JNum(n) == [t |-> "num", v |-> n]
JStr(s) == [t |-> "str", v |-> s]
JArr(a) == [t |-> "arr", v |-> a]
JObj(f) == [t |-> "obj", v |-> f]
JMap(f) == [t |-> "map", v |-> f]
\* the outcome of a call that throws
Thrown == [t |-> "throw"]

EmptyMap == JMap(<<>>)

IsNullish(x) == x.t \in {"undefined", "null"}

\* x?.f for a fixed field name f
Get(x, f) ==
    IF x.t = "obj" /\ f \in DOMAIN x.v THEN x.v[f] ELSE Undefined

\* a ?? b
Coalesce(a, b) == IF IsNullish(a) THEN b ELSE a

\* ToBoolean
Truthy(x) ==
    CASE x.t \in {"undefined", "null"} -> FALSE
      [] x.t = "bool" -> x.v
      [] x.t = "num" -> x.v # 0
      [] x.t = "str" -> x.v # <<>>
      [] OTHER -> TRUE

\* typeof x === "object"
IsObjectType(x) == x.t \in {"obj", "map", "arr", "null"}

\* a || b on strings
OrStr(a, b) == IF a # <<>> THEN a ELSE b

---------------------------------------------------------------------------
(* Strings *)

IsSpace(c) == c \in {9, 10, 11, 12, 13, 32, 160}

RECURSIVE TrimStart(_)
TrimStart(s) ==
    IF s # <<>> /\ IsSpace(Head(s)) THEN TrimStart(Tail(s)) ELSE s

RECURSIVE TrimEnd(_)
TrimEnd(s) ==
    IF s # <<>> /\ IsSpace(s[Len(s)]) THEN TrimEnd(SubSeq(s, 1, Len(s) - 1)) ELSE s

\* String.prototype.trim
Trim(s) == TrimEnd(TrimStart(s))

\* decimal rendering of a number >= 0, as template literals do
RECURSIVE Dec(_)
Dec(n) == IF n < 10 THEN <<48 + n>> ELSE Dec(n \div 10) \o <<48 + (n % 10)>>

\* s.split("\n")
RECURSIVE SplitNL(_)
SplitNL(s) ==
    IF \E i \in 1..Len(s) : s[i] = 10
    THEN LET i == CHOOSE k \in 1..Len(s) : s[k] = 10 /\ \A j \in 1..(k - 1) : s[j] # 10
         IN <<SubSeq(s, 1, i - 1)>> \o SplitNL(SubSeq(s, i + 1, Len(s)))
    ELSE <<s>>

\* the character class [-•\d.)]
IsMarkerChar(c) == c \in {45, 8226, 46, 41} \/ (c >= 48 /\ c <= 57)

RECURSIVE MarkerRun(_)
MarkerRun(s) ==
    IF s # <<>> /\ IsMarkerChar(Head(s)) THEN 1 + MarkerRun(Tail(s)) ELSE 0

\* x.replace(/^\s*[-•\d.)]+\s*/, "")
StripMarker(s) ==
    LET a == TrimStart(s)
        k == MarkerRun(a)
    IN IF k = 0 THEN s ELSE TrimStart(SubSeq(a, k + 1, Len(a)))

\* seq.filter(Boolean) on a sequence of strings
RECURSIVE FilterNonEmpty(_)
FilterNonEmpty(q) ==
    IF q = <<>> THEN <<>>
    ELSE IF Head(q) = <<>> THEN FilterNonEmpty(Tail(q))
    ELSE <<Head(q)>> \o FilterNonEmpty(Tail(q))

\* a string given as multi-line text: split, trim, drop empties, strip markers, trim
BulletLines(s) ==
    LET ls == FilterNonEmpty([i \in 1..Len(SplitNL(s)) |-> Trim(SplitNL(s)[i])])
    IN [i \in 1..Len(ls) |-> Trim(StripMarker(ls[i]))]

\* a sequence of strings as an array value
StrArr(q) == JArr([i \in 1..Len(q) |-> JStr(q[i])])

---------------------------------------------------------------------------
(* Generator page: safeStr, toStrArray, coercePlan *)

safeStr(x) == IF x.t = "str" THEN Trim(x.v) ELSE <<>>

\* v.map((x) => safeStr(x)).filter(Boolean)
RECURSIVE SafeStrs(_)
SafeStrs(a) ==
    IF a = <<>> THEN <<>>
    ELSE IF safeStr(Head(a)) = <<>> THEN SafeStrs(Tail(a))
    ELSE <<safeStr(Head(a))>> \o SafeStrs(Tail(a))

toStrArray(x) ==
    CASE x.t = "arr" -> SafeStrs(x.v)
      [] x.t = "str" -> BulletLines(x.v)
      [] OTHER -> <<>>

\* "Step N"
StepTitle(n) == <<83, 116, 101, 112, 32>> \o Dec(n)

InputFields ==
    {"targetCustomer", "coreOffer", "differentiator", "pricePoint", "geography",
     "goal14Day", "notes"}

\* one step of stepsRaw.slice(0, 3).map(...), i counted from 1
CoerceStep(s, i) ==
    JObj([title |-> JStr(OrStr(safeStr(Get(s, "title")), StepTitle(i))),
          summary |-> JStr(safeStr(Get(s, "summary"))),
          whatThisDoes |-> StrArr(toStrArray(
              Coalesce(Coalesce(Get(s, "whatThisDoes"), Get(s, "what")), Get(s, "explain")))),
          howTo |-> StrArr(toStrArray(
              Coalesce(Coalesce(Get(s, "howTo"), Get(s, "how_to")), Get(s, "checklist")))),
          output |-> JStr(safeStr(Coalesce(Get(s, "output"), Get(s, "deliverable"))))])

EmptyStep(n) ==
    JObj([title |-> JStr(StepTitle(n)), summary |-> JStr(<<>>), whatThisDoes |-> JArr(<<>>),
          howTo |-> JArr(<<>>), output |-> JStr(<<>>)])

\* PadSteps with the loop bound one short: while (steps.length < 2)
RECURSIVE PadStepsShort(_)
PadStepsShort(steps) ==
    IF Len(steps) < 2 THEN PadStepsShort(Append(steps, EmptyStep(Len(steps) + 1))) ELSE steps

\* while (steps.length < 3) steps.push(...)
RECURSIVE PadSteps(_)
PadSteps(steps) ==
    IF Len(steps) < 3 THEN PadSteps(Append(steps, EmptyStep(Len(steps) + 1))) ELSE steps

\* arr.slice(0, n)
SliceTo(a, n) == SubSeq(a, 1, IF Len(a) < n THEN Len(a) ELSE n)

\* coercePlan(raw, ideaFallback, inputsFallback); freshId and now stand for
\* `plan_${Date.now()}_${Math.random()...}` and new Date().toISOString()
coercePlan(raw, ideaFallback, inputsFallback, freshId, now) ==
    LET inputsRaw == IF Truthy(Get(raw, "inputs")) /\ IsObjectType(Get(raw, "inputs"))
                     THEN Get(raw, "inputs") ELSE JObj(<<>>)
        \* raw.inputs is read without ?. once raw?.inputs is truthy
        throws == Truthy(Get(raw, "inputs")) /\ IsNullish(raw)
        stepsRaw == IF Get(raw, "steps").t = "arr" THEN Get(raw, "steps").v ELSE <<>>
        head == SliceTo(stepsRaw, 3)
        steps == PadSteps([i \in 1..Len(head) |-> CoerceStep(head[i], i)])
    IN IF throws THEN Thrown
       ELSE JObj([id |-> JStr(OrStr(safeStr(Get(raw, "id")), freshId)),
                  createdAt |-> JStr(OrStr(safeStr(Get(raw, "createdAt")), now)),
                  idea |-> JStr(OrStr(safeStr(Get(raw, "idea")), ideaFallback)),
                  inputs |-> JObj([f \in InputFields |->
                      JStr(OrStr(OrStr(safeStr(Get(inputsRaw, f)), safeStr(Get(raw, f))),
                                 inputsFallback[f]))]),
                  steps |-> JArr(SliceTo(steps, 3))])

---------------------------------------------------------------------------
(* Generate route: cleanStr, ensureArrayOfStrings, coercePlan, POST *)

cleanStr(x) == IF x.t = "str" THEN Trim(x.v) ELSE <<>>

\* x.map((v) => (typeof v === "string" ? v.trim() : "")).filter(Boolean)
RECURSIVE CleanStrs(_)
CleanStrs(a) ==
    IF a = <<>> THEN <<>>
    ELSE IF cleanStr(Head(a)) = <<>> THEN CleanStrs(Tail(a))
    ELSE <<cleanStr(Head(a))>> \o CleanStrs(Tail(a))

ensureArrayOfStrings(x) == IF x.t = "arr" THEN CleanStrs(x.v) ELSE <<>>

RouteStep(s, i) ==
    JObj([title |-> JStr(OrStr(cleanStr(Get(s, "title")), StepTitle(i))),
          summary |-> JStr(cleanStr(Get(s, "summary"))),
          whatThisDoes |-> StrArr(ensureArrayOfStrings(Get(s, "whatThisDoes"))),
          howTo |-> StrArr(ensureArrayOfStrings(Get(s, "howTo"))),
          output |-> JStr(cleanStr(Get(s, "output")))])

\* the route's coercePlan(raw, idea, inputs); uid and now stand for uid() and
\* new Date().toISOString().  calendarDays is left out: the client's coercePlan
\* never reads it and drops it from the plan it stores.
routeCoercePlan(raw, ideaIn, inputsIn, uid, now) ==
    LET stepsRaw == IF Get(raw, "steps").t = "arr" THEN Get(raw, "steps").v ELSE <<>>
        head == SliceTo(stepsRaw, 3)
        steps == PadSteps([i \in 1..Len(head) |-> RouteStep(head[i], i)])
    IN JObj([id |-> JStr(OrStr(cleanStr(Get(raw, "id")), uid)),
             createdAt |-> JStr(OrStr(cleanStr(Get(raw, "createdAt")), now)),
             idea |-> JStr(OrStr(cleanStr(Get(raw, "idea")), ideaIn)),
             inputs |-> IF IsObjectType(Get(raw, "inputs")) /\ Truthy(Get(raw, "inputs"))
                        THEN Get(raw, "inputs")
                        ELSE JObj([f \in InputFields |-> JStr(inputsIn[f])]),
             steps |-> JArr(steps)])

---------------------------------------------------------------------------
(* Stored text.  A text is kept as what JSON.parse makes of it: the text of  *)
(* a JSON value, the empty string, or text that JSON.parse rejects.          *)

NoItem == [kind |-> "none"]
EmptyText == [kind |-> "empty"]
Garbage == [kind |-> "garbage"]

\* JSON.stringify(v): undefined has no JSON text ("undefined" is stored)
JSONstringify(v) == IF v.t = "undefined" THEN Garbage ELSE [kind |-> "json", val |-> v]

\* JSON.parse(text)
JSONparse(text) == IF text.kind = "json" THEN text.val ELSE Thrown

\* localStorage.getItem(key) on store ls
getItem(ls, key) == IF key \in DOMAIN ls THEN ls[key] ELSE NoItem

\* localStorage.setItem(key, text)
setItem(ls, key, text) == (key :> text) @@ ls

\* localStorage.removeItem(key)
removeItem(ls, key) == [k \in DOMAIN ls \ {key} |-> ls[k]]

---------------------------------------------------------------------------
(* Calendar page: safeJsonParse, normalizeBullets, planId, checksKey,        *)
(* chunkEvenly, buildDays                                                    *)

\* "bsg_latest_plan_v1"
PLAN_KEY == <<98, 115, 103, 95, 108, 97, 116, 101, 115, 116, 95, 112, 108, 97, 110, 95, 118, 49>>

safeJsonParse(raw) ==
    IF raw.kind \in {"none", "empty"} THEN JNull
    ELSE IF JSONparse(raw) = Thrown THEN JNull
    ELSE JSONparse(raw)

\* String(x)
RECURSIVE JString(_)
JString(x) ==
    CASE x.t = "str" -> x.v
      [] x.t = "num" -> Dec(x.v)
      [] x.t = "bool" -> IF x.v THEN <<116, 114, 117, 101>> ELSE <<102, 97, 108, 115, 101>>
      [] x.t = "null" -> <<110, 117, 108, 108>>
      [] x.t = "undefined" -> <<117, 110, 100, 101, 102, 105, 110, 101, 100>>
      [] x.t = "arr" ->
           IF x.v = <<>> THEN <<>>
           ELSE IF Len(x.v) = 1 THEN (IF IsNullish(x.v[1]) THEN <<>> ELSE JString(x.v[1]))
           ELSE (IF IsNullish(x.v[1]) THEN <<>> ELSE JString(x.v[1])) \o <<44>>
                \o JString(JArr(Tail(x.v)))
      \* "[object Object]"
      [] OTHER -> <<91, 111, 98, 106, 101, 99, 116, 32, 79, 98, 106, 101, 99, 116, 93>>

\* v.map((x) => String(x ?? "").trim()).filter(Boolean)
RECURSIVE StringTrims(_)
StringTrims(a) ==
    IF a = <<>> THEN <<>>
    ELSE LET x == Trim(JString(Coalesce(Head(a), JStr(<<>>))))
         IN IF x = <<>> THEN StringTrims(Tail(a)) ELSE <<x>> \o StringTrims(Tail(a))

normalizeBullets(x) ==
    CASE x.t = "arr" -> StringTrims(x.v)
      [] x.t = "str" -> BulletLines(x.v)
      [] OTHER -> <<>>

\* 2^16: a 32-bit word is kept as <<high half, low half>>
Limb == 2^16

\* 2166136261 = 0x811c9dc5, as halves 0x811c and 0x9dc5
FNV_OFFSET_HI == 33052
FNV_OFFSET_LO == 40389
FNV_PRIME == 16777619

\* a ^ b on numbers below 2^16
RECURSIVE Xor(_, _)
Xor(a, b) ==
    IF a = 0 THEN b
    ELSE IF b = 0 THEN a
    ELSE ((a + b) % 2) + 2 * Xor(a \div 2, b \div 2)

\* Math.imul(h, FNV_PRIME), the low 32 bits of the product
Imul(h) ==
    LET pHi == FNV_PRIME \div Limb
        pLo == FNV_PRIME % Limb
        t == h[2] * pLo
    IN <<(h[1] * pLo + h[2] * pHi + (t \div Limb)) % Limb, t % Limb>>

\* the loop of planId over base[i..], from hash value h
RECURSIVE FnvFrom(_, _)
FnvFrom(h, base) ==
    IF base = <<>> THEN h
    ELSE FnvFrom(Imul(<<h[1], Xor(h[2], Head(base))>>), Tail(base))

HexDigit(d) == IF d < 10 THEN 48 + d ELSE 87 + d

RECURSIVE Hex(_)
Hex(n) == IF n < 16 THEN <<HexDigit(n)>> ELSE Hex(n \div 16) \o <<HexDigit(n % 16)>>

\* (h >>> 0).toString(16)
HexOf(h) ==
    IF h[1] = 0 THEN Hex(h[2])
    ELSE Hex(h[1]) \o <<HexDigit(h[2] \div 4096), HexDigit((h[2] \div 256) % 16),
                         HexDigit((h[2] \div 16) % 16), HexDigit(h[2] % 16)>>

\* "latest"
LATEST == <<108, 97, 116, 101, 115, 116>>

\* "plan_"
PLAN_PREFIX == <<112, 108, 97, 110, 95>>

\* PlanBase with the idea taken before the id
PlanBaseIdeaFirst(p) ==
    IF Truthy(Get(p, "idea")) THEN Get(p, "idea")
    ELSE IF Truthy(Get(p, "id")) THEN Get(p, "id")
    ELSE JStr(LATEST)

\* plan?.id || plan?.idea || "latest"
PlanBase(p) ==
    IF Truthy(Get(p, "id")) THEN Get(p, "id")
    ELSE IF Truthy(Get(p, "idea")) THEN Get(p, "idea")
    ELSE JStr(LATEST)

\* planId(plan): a string value, or Thrown (base.charCodeAt is not a function).
\* A base that is no string and no array has no length: the loop does not run.
planId(p) ==
    LET base == PlanBase(p)
    IN CASE base.t = "str" ->
              JStr(PLAN_PREFIX \o HexOf(FnvFrom(<<FNV_OFFSET_HI, FNV_OFFSET_LO>>, base.v)))
         [] base.t = "arr" /\ base.v # <<>> -> Thrown
         [] OTHER -> JStr(PLAN_PREFIX \o HexOf(<<FNV_OFFSET_HI, FNV_OFFSET_LO>>))

\* checksKey without the identity: one entry for every plan
checksKeyShared(id) ==
    <<98, 115, 103, 95, 99, 97, 108, 101, 110, 100, 97, 114, 95, 99, 104, 101, 99, 107,
      115, 95, 118, 49, 95>>

\* checksKey(id) = "bsg_calendar_checks_v1_" + id
checksKey(id) ==
    <<98, 115, 103, 95, 99, 97, 108, 101, 110, 100, 97, 114, 95, 99, 104, 101, 99, 107,
      115, 95, 118, 49, 95>> \o id

\* the loop of chunkEvenly from index i (counted from 0) with buckets out so far
RECURSIVE ChunkFrom(_, _, _, _)
ChunkFrom(items, buckets, i, out) ==
    IF i >= Len(items) THEN out
    ELSE ChunkFrom(items, buckets, i + 1,
                   [out EXCEPT ![(i % buckets) + 1] = Append(@, items[i + 1])])

\* chunkEvenly cutting the list into consecutive runs instead of dealing it out
chunkContiguous(items, buckets) ==
    LET size == (Len(items) + buckets - 1) \div buckets
    IN [b \in 1..buckets |->
          SubSeq(items, (b - 1) * size + 1,
                 IF b * size < Len(items) THEN b * size ELSE Len(items))]

chunkEvenly(items, buckets) == ChunkFrom(items, buckets, 0, [b \in 1..buckets |-> <<>>])

fallback1 ==
    << \* Write your one-liner (who + outcome + why you).
       <<87,114,105,116,101,32,121,111,117,114,32,111,110,101,45,108,105,110,101,114,32,40,119,104,111,32,43,32,111,117,116,99,111,109,101,32,43,32,119,104,121,32,121,111,117,41,46>>,
       \* Draft landing page: headline + 3 bullets + proof + CTA.
       <<68,114,97,102,116,32,108,97,110,100,105,110,103,32,112,97,103,101,58,32,104,101,97,100,108,105,110,101,32,43,32,51,32,98,117,108,108,101,116,115,32,43,32,112,114,111,111,102,32,43,32,67,84,65,46>>,
       \* Write FAQs for top objections.
       <<87,114,105,116,101,32,70,65,81,115,32,102,111,114,32,116,111,112,32,111,98,106,101,99,116,105,111,110,115,46>>,
       \* Clarify pricing/packaging and a single CTA.
       <<67,108,97,114,105,102,121,32,112,114,105,99,105,110,103,47,112,97,99,107,97,103,105,110,103,32,97,110,100,32,97,32,115,105,110,103,108,101,32,67,84,65,46>> >>

fallback2 ==
    << \* Pick ONE channel for the 14-day sprint.
       <<80,105,99,107,32,79,78,69,32,99,104,97,110,110,101,108,32,102,111,114,32,116,104,101,32,49,52,45,100,97,121,32,115,112,114,105,110,116,46>>,
       \* Create 3 hooks (pain/outcome/differentiator).
       <<67,114,101,97,116,101,32,51,32,104,111,111,107,115,32,40,112,97,105,110,47,111,117,116,99,111,109,101,47,100,105,102,102,101,114,101,110,116,105,97,116,111,114,41,46>>,
       \* Do today's outreach/content block (30-60 min).
       <<68,111,32,116,111,100,97,121,8217,115,32,111,117,116,114,101,97,99,104,47,99,111,110,116,101,110,116,32,98,108,111,99,107,32,40,51,48,8211,54,48,32,109,105,110,41,46>>,
       \* Improve based on responses and iterate hooks.
       <<73,109,112,114,111,118,101,32,98,97,115,101,100,32,111,110,32,114,101,115,112,111,110,115,101,115,32,97,110,100,32,105,116,101,114,97,116,101,32,104,111,111,107,115,46>>,
       \* Follow up within 24 hours.
       <<70,111,108,108,111,119,32,117,112,32,119,105,116,104,105,110,32,50,52,32,104,111,117,114,115,46>>,
       \* Track: views -> leads -> conversions.
       <<84,114,97,99,107,58,32,118,105,101,119,115,32,8594,32,108,101,97,100,115,32,8594,32,99,111,110,118,101,114,115,105,111,110,115,46>> >>

fallback3 ==
    << \* Collect proof (testimonial/screenshot/case study) and publish it.
       <<67,111,108,108,101,99,116,32,112,114,111,111,102,32,40,116,101,115,116,105,109,111,110,105,97,108,47,115,99,114,101,101,110,115,104,111,116,47,99,97,115,101,32,115,116,117,100,121,41,32,97,110,100,32,112,117,98,108,105,115,104,32,105,116,46>>,
       \* Improve activation/onboarding to value fast.
       <<73,109,112,114,111,118,101,32,97,99,116,105,118,97,116,105,111,110,47,111,110,98,111,97,114,100,105,110,103,32,116,111,32,118,97,108,117,101,32,102,97,115,116,46>>,
       \* Add a referral ask script and use it.
       <<65,100,100,32,97,32,114,101,102,101,114,114,97,108,32,97,115,107,32,115,99,114,105,112,116,32,97,110,100,32,117,115,101,32,105,116,46>>,
       \* Review metrics and lock the next sprint.
       <<82,101,118,105,101,119,32,109,101,116,114,105,99,115,32,97,110,100,32,108,111,99,107,32,116,104,101,32,110,101,120,116,32,115,112,114,105,110,116,46>> >>

\* "Execute the next best action from this step."
FILLER ==
    <<69, 120, 101, 99, 117, 116, 101, 32, 116, 104, 101, 32, 110, 101, 120, 116, 32, 98,
      101, 115, 116, 32, 97, 99, 116, 105, 111, 110, 32, 102, 114, 111, 109, 32, 116, 104,
      105, 115, 32, 115, 116, 101, 112, 46>>

\* "Step 1: Positioning", "Step 2: Acquisition Sprint", "Step 3: Retention & Proof"
DefaultTitles ==
    << <<83, 116, 101, 112, 32, 49, 58, 32, 80, 111, 115, 105, 116, 105, 111, 110, 105, 110, 103>>,
       <<83, 116, 101, 112, 32, 50, 58, 32, 65, 99, 113, 117, 105, 115, 105, 116, 105, 111, 110,
         32, 83, 112, 114, 105, 110, 116>>,
       <<83, 116, 101, 112, 32, 51, 58, 32, 82, 101, 116, 101, 110, 116, 105, 111, 110, 32, 38,
         32, 80, 114, 111, 111, 102>> >>

Fallbacks == <<fallback1, fallback2, fallback3>>

\* BlockDays with the days of the last two blocks exchanged
BlockDaysSwapped == <<4, 4, 6>>

\* the days of the three blocks
BlockDays == <<4, 6, 4>>

\* Array.isArray(plan?.steps) ? plan.steps : []
StepsOf(p) == IF Get(p, "steps").t = "arr" THEN Get(p, "steps").v ELSE <<>>

\* steps[i - 1]
StepAt(p, i) == IF i <= Len(StepsOf(p)) THEN StepsOf(p)[i] ELSE Undefined

\* [...normalizeBullets(step?.howTo), ...normalizeBullets(step?.whatThisDoes)]
StepBullets(step) ==
    normalizeBullets(Get(step, "howTo")) \o normalizeBullets(Get(step, "whatThisDoes"))

\* Block without the canned lists: the bullets of the step, even when it has none
BlockNoFallback(p, i) ==
    LET step == StepAt(p, i)
        title == Get(step, "title")
    IN [title |-> IF title.t = "str" THEN OrStr(Trim(title.v), DefaultTitles[i])
                  ELSE DefaultTitles[i],
        days |-> BlockDays[i],
        bullets |-> StepBullets(step)]

\* one entry of block: title, days, bullets
Block(p, i) ==
    LET step == StepAt(p, i)
        title == Get(step, "title")
    IN [title |-> IF title.t = "str" THEN OrStr(Trim(title.v), DefaultTitles[i])
                  ELSE DefaultTitles[i],
        days |-> BlockDays[i],
        bullets |-> IF StepBullets(step) # <<>> THEN StepBullets(step) ELSE Fallbacks[i]]

\* step?.title?.trim() throws when title is neither nullish nor a string
buildDaysThrows(p) ==
    \E i \in 1..3 : LET title == Get(StepAt(p, i), "title")
                    IN ~IsNullish(title) /\ title.t # "str"

\* BlockDaysFrom without the filler task: an empty bucket stays empty
BlockDaysNoFiller(b, n) ==
    LET buckets == chunkEvenly(b.bullets, b.days)
    IN [i \in 1..b.days |->
          [day |-> n + i - 1, dateLabel |-> n + i - 2, focus |-> b.title,
           tasks |-> buckets[i]]]

\* the days pushed for block b, the first of them numbered n; dateLabel is kept
\* as the number of days after today that formatDate is given
BlockDaysFrom(b, n) ==
    LET buckets == chunkEvenly(b.bullets, b.days)
    IN [i \in 1..b.days |->
          [day |-> n + i - 1,
           dateLabel |-> n + i - 2,
           focus |-> b.title,
           tasks |-> IF buckets[i] # <<>> THEN buckets[i] ELSE <<FILLER>>]]

\* buildDays(plan)
buildDays(p) ==
    LET b1 == Block(p, 1)
        b2 == Block(p, 2)
        b3 == Block(p, 3)
        days == BlockDaysFrom(b1, 1) \o BlockDaysFrom(b2, 1 + b1.days)
                \o BlockDaysFrom(b3, 1 + b1.days + b2.days)
    IN SliceTo(days, 14)

---------------------------------------------------------------------------
(* Calendar page: the checks mapping *)

\* `d${day}_t${idx}`
Key(day, idx) == <<100>> \o Dec(day) \o <<95, 116>> \o Dec(idx)

\* prev[key] for a key of the form d<day>_t<idx>: no array index, no string index
Prop(prev, key) ==
    IF prev.t = "map" /\ key \in DOMAIN prev.v THEN prev.v[key] ELSE Undefined

\* {...prev}: the own enumerable properties of prev (an "obj" never reaches checks)
Spread(prev) ==
    CASE prev.t = "map" -> prev.v
      [] prev.t = "arr" ->
           [k \in {Dec(i - 1) : i \in 1..Len(prev.v)} |->
              prev.v[CHOOSE i \in 1..Len(prev.v) : Dec(i - 1) = k]]
      [] prev.t = "str" ->
           [k \in {Dec(i - 1) : i \in 1..Len(prev.v)} |->
              JStr(<<prev.v[CHOOSE i \in 1..Len(prev.v) : Dec(i - 1) = k]>>)]
      [] OTHER -> <<>>

\* Toggled with the spread written last: { [key]: !prev[key], ...prev }
ToggledSpreadLast(prev, key) ==
    JMap(Spread(prev) @@ (key :> JBool(~Truthy(Prop(prev, key)))))

\* the updater of toggle: {...prev, [key]: !prev[key]}
Toggled(prev, key) == JMap((key :> JBool(~Truthy(Prop(prev, key)))) @@ Spread(prev))

\* checked={!!checks[`d${d.day}_t${idx}`]}
Checked(c, day, idx) == Truthy(Prop(c, Key(day, idx)))

---------------------------------------------------------------------------
(* Messages *)

\* "Type a business idea first."
MSG_TYPE_IDEA ==
    <<84, 121, 112, 101, 32, 97, 32, 98, 117, 115, 105, 110, 101, 115, 115, 32, 105, 100,
      101, 97, 32, 102, 105, 114, 115, 116, 46>>

\* "Something went wrong."
MSG_WENT_WRONG ==
    <<83, 111, 109, 101, 116, 104, 105, 110, 103, 32, 119, 101, 110, 116, 32, 119, 114,
      111, 110, 103, 46>>

\* `Generate failed (${resp.status})`
MsgGenerateFailed(status) ==
    <<71, 101, 110, 101, 114, 97, 116, 101, 32, 102, 97, 105, 108, 101, 100, 32, 40>>
    \o Dec(status) \o <<41>>

\* "Missing business idea"
MSG_MISSING_IDEA ==
    <<77, 105, 115, 115, 105, 110, 103, 32, 98, 117, 115, 105, 110, 101, 115, 115, 32,
      105, 100, 101, 97>>

\* "Missing OPENAI_API_KEY in .env.local"
MSG_MISSING_KEY ==
    <<77, 105, 115, 115, 105, 110, 103, 32, 79, 80, 69, 78, 65, 73, 95, 65, 80, 73, 95,
      75, 69, 89, 32, 105, 110, 32, 46, 101, 110, 118, 46, 108, 111, 99, 97, 108>>

\* `OpenAI request failed (${resp.status})`
MsgOpenAIFailed(status) ==
    <<79, 112, 101, 110, 65, 73, 32, 114, 101, 113, 117, 101, 115, 116, 32, 102, 97, 105,
      108, 101, 100, 32, 40>> \o Dec(status) \o <<41>>

\* "Model did not return valid JSON. Try again."
MSG_INVALID_JSON ==
    <<77, 111, 100, 101, 108, 32, 100, 105, 100, 32, 110, 111, 116, 32, 114, 101, 116,
      117, 114, 110, 32, 118, 97, 108, 105, 100, 32, 74, 83, 79, 78, 46, 32, 84, 114, 121,
      32, 97, 103, 97, 105, 110, 46>>

\* the message of the error fetch rejects with: "Failed to fetch"
MSG_FAILED_TO_FETCH ==
    <<70, 97, 105, 108, 101, 100, 32, 116, 111, 32, 102, 101, 116, 99, 104>>

---------------------------------------------------------------------------
(* The generate route, as a function of the request and of what the provider *)
(* does.  provider.kind: "throw" (the call rejects), "notok" (a non-OK       *)
(* status), "text" (content that is no JSON), "json" (content parsing to     *)
(* provider.val).                                                            *)

\* NextResponse.json(body, {status}) as the client's fetch sees it
Response(status, data) == [ok |-> status >= 200 /\ status <= 299, status |-> status, data |-> data]

ErrorBody(msg) == JObj([error |-> JStr(msg)])

\* POST(req): body is the parsed request body, apiKey whether OPENAI_API_KEY is set
POST(body, apiKey, provider, uid, now) ==
    LET ideaIn == cleanStr(Get(body, "idea"))
        inputsIn == [f \in InputFields |-> cleanStr(Get(body, f))]
    IN CASE ideaIn = <<>> -> Response(400, ErrorBody(MSG_MISSING_IDEA))
         [] ideaIn # <<>> /\ ~apiKey -> Response(500, ErrorBody(MSG_MISSING_KEY))
         [] ideaIn # <<>> /\ apiKey /\ provider.kind = "throw" ->
              Response(500, ErrorBody(MSG_FAILED_TO_FETCH))
         [] ideaIn # <<>> /\ apiKey /\ provider.kind = "notok" ->
              Response(500, ErrorBody(MsgOpenAIFailed(provider.status)))
         [] ideaIn # <<>> /\ apiKey /\ provider.kind = "text" ->
              Response(500, ErrorBody(MSG_INVALID_JSON))
         [] OTHER -> Response(200, routeCoercePlan(provider.val, ideaIn, inputsIn, uid, now))

---------------------------------------------------------------------------
(* Bounds and inputs of the model *)

\* generation requests sent in one run
MaxGens == 2

\* "Coffee cart", "Coffee Cart"
IdeaA == <<67, 111, 102, 102, 101, 101, 32, 99, 97, 114, 116>>
IdeaB == <<67, 111, 102, 102, 101, 101, 32, 67, 97, 114, 116>>

\* what the user types into the idea box (surrounding blanks are trimmed on submit)
IdeaTexts == {<<32>> \o IdeaA, IdeaB}

\* the ISO time new Date().toISOString() yields: "2030-01-01T00:00:00.000Z"
NOW ==
    <<50, 48, 51, 48, 45, 48, 49, 45, 48, 49, 84, 48, 48, 58, 48, 48, 58, 48, 48, 46, 48,
      48, 48, 90>>

\* uid() of the route for the n-th request: a string no other request gets
UID(n) == PLAN_PREFIX \o Dec(n)

\* `plan_${Date.now()}_${Math.random().toString(16).slice(2)}` for the n-th request
ClientId(n) == PLAN_PREFIX \o Dec(n) \o <<95>> \o Dec(n)

\* bullet texts "b1", "b2", ... and "w1", "w2", ...
HowToBullets(n) == [i \in 1..n |-> <<98>> \o Dec(i)]
WhatBullets(n) == [i \in 1..n |-> <<119>> \o Dec(i)]

\* a step as the provider writes it, with h howTo and w whatThisDoes bullets
ProviderStep(title, h, w) ==
    JObj([title |-> JStr(title), summary |-> JStr(<<>>),
          whatThisDoes |-> StrArr(WhatBullets(w)), howTo |-> StrArr(HowToBullets(h)),
          output |-> JStr(<<>>)])

\* " Launch "
TitleLaunch == <<32, 76, 97, 117, 110, 99, 104, 32>>

\* the steps of a provider answer: 4 + 3 bullets, 3 bullets, a step without bullets
RichSteps ==
    JArr(<<ProviderStep(TitleLaunch, 4, 3), ProviderStep(<<>>, 3, 0), JObj(<<>>)>>)

\* the JSON the provider answers with: with its own id "x", or without an id
ProviderPlans ==
    {JObj([id |-> JStr(<<120>>), steps |-> RichSteps]), JObj([steps |-> RichSteps])}

Providers ==
    {[kind |-> "throw"], [kind |-> "notok", status |-> 429], [kind |-> "text"]}
    \cup {[kind |-> "json", val |-> p] : p \in ProviderPlans}

\* the body onGenerate posts for request r
RequestBody(r) ==
    JObj([f \in InputFields \cup {"idea"} |->
            IF f = "idea" THEN JStr(r.idea) ELSE JStr(r.inputs[f])])

\* what the awaited fetch of request r can end in: a rejection, a response of
\* the route, or a response whose body is no JSON (resp.json() fails: data null)
FetchOutcomes(r) ==
    {[kind |-> "reject"], [kind |-> "response", resp |-> [ok |-> FALSE, status |-> 502, data |-> JNull]]}
    \cup {[kind |-> "response", resp |-> POST(RequestBody(r), k, pr, UID(r.n), NOW)] :
            k \in BOOLEAN, pr \in Providers}

EmptyInputs == [f \in InputFields |-> <<>>]

\* the identity of a calendar without a plan, under which a browser may hold
\* an entry of an earlier session
NullPid == planId(JNull).v

\* the texts such an entry may hold: mappings the page wrote, and corrupt ones
\* (no JSON, a number, a mapping onto a string)
EarlierTexts ==
    {Garbage,
     JSONstringify(JNum(5)),
     JSONstringify(JMap(Key(3, 1) :> JStr(<<120>>))),
     JSONstringify(JMap(Key(3, 1) :> JBool(TRUE)))}

\* the stores a run of the whole application starts from: empty, or holding
\* such an entry that is no JSON
InitialStores == {<<>>, checksKey(NullPid) :> Garbage}

\* the checkbox the user clicks in runs of the whole application: day 3, task 1
ToggleCells == {<<3, 1>>}

\* the checkboxes the user clicks in runs of the calendar page alone
CalendarCells == {<<3, 0>>, <<3, 1>>, <<14, 0>>}

NotRun == [t |-> "none"]

---------------------------------------------------------------------------
(* The application *)

\* the state of a page that is not mounted
HomeOff ==
    /\ idea' = <<>>
    /\ inputs' = EmptyInputs
    /\ loading' = FALSE
    /\ error' = <<>>
    /\ plan' = JNull

CalendarOff ==
    /\ calPlan' = JNull
    /\ pid' = LATEST
    /\ checks' = EmptyMap
    /\ calPc' = "off"

\* useState initial values of CalendarPage, its effects still to run
CalendarMounted ==
    /\ calPlan' = JNull
    /\ pid' = LATEST
    /\ checks' = EmptyMap
    /\ calPc' = "mounted"

\* no effect of the calendar page is waiting to run
Settled == calPc \in {"off", "idle"}

NoHistory == [byIdea |-> <<>>, byPid |-> <<>>]

AppInit ==
    /\ localStorage \in InitialStores
    /\ page = "home"
    /\ idea = <<>>
    /\ inputs = EmptyInputs
    /\ loading = FALSE
    /\ error = <<>>
    /\ plan = JNull
    /\ inflight = {}
    /\ gens = 0
    /\ calPlan = JNull
    /\ pid = LATEST
    /\ checks = EmptyMap
    /\ calPc = "off"
    /\ saved = NoHistory

Init ==
    /\ AppInit
    /\ arg = JNull
    /\ res = NotRun

\* onChange of the idea box
setIdea(v) ==
    /\ page = "home" /\ Settled
    /\ idea' = v
    /\ UNCHANGED <<localStorage, page, inputs, loading, error, plan, inflight, gens,
                   calPlan, pid, checks, calPc, saved, arg, res>>

\* onGenerate up to its await: the empty idea is refused, otherwise the request
\* is sent.  The button is disabled while loading.
onGenerate ==
    /\ page = "home" /\ Settled
    /\ ~loading
    /\ IF Trim(idea) = <<>>
       THEN /\ error' = MSG_TYPE_IDEA
            /\ UNCHANGED <<loading, inflight, gens>>
       ELSE /\ gens < MaxGens
            /\ error' = <<>>
            /\ loading' = TRUE
            /\ gens' = gens + 1
            /\ inflight' = inflight \cup
                 {[n |-> gens + 1, live |-> TRUE, beforeClear |-> FALSE,
                   idea |-> Trim(idea), inputs |-> inputs]}
    /\ UNCHANGED <<localStorage, page, idea, inputs, plan, calPlan, pid, checks,
                   calPc, saved, arg, res>>

\* the component that called onGenerate for r is still mounted: only then do its
\* state setters change anything
Live(r) == r.live

\* Page is unmounted: the state setters of its awaited calls no longer act
Orphaned(reqs) == {[r EXCEPT !.live = FALSE] : r \in reqs}

\* onGenerateResume with a failure handler that also drops the plan, in memory
\* and in the store
onGenerateResumeDropsPlan(r, out) ==
    /\ r \in inflight
    /\ out \in FetchOutcomes(r)
    /\ inflight' = inflight \ {r}
    /\ LET failed == out.kind = "response" /\ (~out.resp.ok \/ ~Truthy(out.resp.data))
           nextPlan == coercePlan(out.resp.data, r.idea, r.inputs, ClientId(r.n), NOW)
       IN CASE out.kind = "reject" ->
                 /\ error' = IF Live(r) THEN OrStr(MSG_FAILED_TO_FETCH, MSG_WENT_WRONG) ELSE error
                 /\ plan' = JNull
                 /\ localStorage' = removeItem(localStorage, PLAN_KEY)
            [] failed ->
                 /\ error' = IF Live(r)
                             THEN OrStr(safeStr(Get(out.resp.data, "error")),
                                        MsgGenerateFailed(out.resp.status))
                             ELSE error
                 /\ plan' = JNull
                 /\ localStorage' = removeItem(localStorage, PLAN_KEY)
            [] OTHER ->
                 /\ plan' = IF Live(r) THEN nextPlan ELSE plan
                 /\ localStorage' = setItem(localStorage, PLAN_KEY, JSONstringify(nextPlan))
                 /\ UNCHANGED error
    /\ loading' = IF Live(r) THEN FALSE ELSE loading
    /\ UNCHANGED <<page, idea, inputs, gens, calPlan, pid, checks, calPc, saved,
                   arg, res>>

\* onGenerate after its await, for request r whose fetch ended in out
onGenerateResume(r, out) ==
    /\ r \in inflight
    /\ out \in FetchOutcomes(r)
    /\ inflight' = inflight \ {r}
    /\ LET failed == out.kind = "response" /\ (~out.resp.ok \/ ~Truthy(out.resp.data))
           nextPlan == coercePlan(out.resp.data, r.idea, r.inputs, ClientId(r.n), NOW)
       IN CASE out.kind = "reject" ->
                 /\ error' = IF Live(r) THEN OrStr(MSG_FAILED_TO_FETCH, MSG_WENT_WRONG) ELSE error
                 /\ UNCHANGED <<plan, localStorage>>
            [] failed ->
                 /\ error' = IF Live(r)
                             THEN OrStr(safeStr(Get(out.resp.data, "error")),
                                        MsgGenerateFailed(out.resp.status))
                             ELSE error
                 /\ UNCHANGED <<plan, localStorage>>
            [] OTHER ->
                 /\ plan' = IF Live(r) THEN nextPlan ELSE plan
                 /\ localStorage' = setItem(localStorage, PLAN_KEY, JSONstringify(nextPlan))
                 /\ UNCHANGED error
    /\ loading' = IF Live(r) THEN FALSE ELSE loading
    /\ UNCHANGED <<page, idea, inputs, gens, calPlan, pid, checks, calPc, saved,
                   arg, res>>

\* the requests awaited when clearAll runs: they were sent before the clear
Overtaken(reqs) == {[r EXCEPT !.beforeClear = TRUE] : r \in reqs}

\* clearAll emptying the whole store: localStorage.clear()
clearAllWipesStore ==
    /\ page = "home" /\ Settled
    /\ idea' = <<>>
    /\ inputs' = EmptyInputs
    /\ plan' = JNull
    /\ error' = <<>>
    /\ localStorage' = <<>>
    /\ inflight' = Overtaken(inflight)
    /\ UNCHANGED <<page, loading, gens, calPlan, pid, checks, calPc, saved, arg, res>>

clearAll ==
    /\ page = "home" /\ Settled
    /\ idea' = <<>>
    /\ inputs' = EmptyInputs
    /\ plan' = JNull
    /\ error' = <<>>
    /\ localStorage' = removeItem(localStorage, PLAN_KEY)
    /\ inflight' = Overtaken(inflight)
    /\ UNCHANGED <<page, loading, gens, calPlan, pid, checks, calPc, saved, arg, res>>

\* the calendar button (disabled without a plan): router.push("/calendar")
\* unmounts Page and mounts CalendarPage; awaited fetches go on
goCalendar ==
    /\ page = "home" /\ Settled
    /\ ~IsNullish(plan)
    /\ page' = "calendar"
    /\ HomeOff
    /\ CalendarMounted
    /\ inflight' = Orphaned(inflight)
    /\ UNCHANGED <<localStorage, gens, saved, arg, res>>

\* the calendar opened by its address (or reloaded): a fresh document, in which
\* no earlier fetch is awaited
openCalendar ==
    /\ Settled
    /\ page' = "calendar"
    /\ HomeOff
    /\ CalendarMounted
    /\ inflight' = {}
    /\ UNCHANGED <<localStorage, gens, saved, arg, res>>

\* the two effects of CalendarPage after its first render, in order: the load
\* effect reads the plan and its checks and queues the state updates; the
\* persist effect still sees pid = "latest" and checks = {}
MountEffects ==
    /\ page = "calendar" /\ calPc = "mounted"
    /\ LET p == safeJsonParse(getItem(localStorage, PLAN_KEY))
           id == planId(p).v
           savedChecks == safeJsonParse(getItem(localStorage, checksKey(id)))
       IN /\ calPlan' = p
          /\ pid' = id
          /\ checks' = IF Truthy(savedChecks) THEN savedChecks ELSE EmptyMap
          /\ localStorage' = setItem(localStorage, checksKey(pid), JSONstringify(checks))
    /\ calPc' = "loaded"
    /\ UNCHANGED <<page, idea, inputs, loading, error, plan, inflight, gens, saved,
                   arg, res>>

\* the idea of the plan the calendar shows, "" when it has none
IdeaOf(p) == safeStr(Get(p, "idea"))

\* PersistEffect writing under the identity its first run saw: "latest"
PersistEffectStaleKey ==
    /\ page = "calendar" /\ calPc \in {"loaded", "dirty"}
    /\ localStorage' = setItem(localStorage, checksKey(LATEST), JSONstringify(checks))
    /\ calPc' = "idle"
    /\ saved' = [byIdea |-> (IdeaOf(calPlan) :> checks) @@ saved.byIdea,
                 byPid |-> (pid :> checks) @@ saved.byPid]
    /\ UNCHANGED <<page, idea, inputs, loading, error, plan, inflight, gens,
                   calPlan, pid, checks, arg, res>>

\* the persist effect, run after a render in which checks or pid changed
PersistEffect ==
    /\ page = "calendar" /\ calPc \in {"loaded", "dirty"}
    /\ localStorage' = setItem(localStorage, checksKey(pid), JSONstringify(checks))
    /\ calPc' = "idle"
    /\ saved' = [byIdea |-> (IdeaOf(calPlan) :> checks) @@ saved.byIdea,
                 byPid |-> (pid :> checks) @@ saved.byPid]
    /\ UNCHANGED <<page, idea, inputs, loading, error, plan, inflight, gens,
                   calPlan, pid, checks, arg, res>>

\* the days the calendar renders: useMemo(() => buildDays(plan), [plan])
Days == buildDays(calPlan)

\* onChange of the checkbox of task idx of day
toggle(day, idx) ==
    /\ page = "calendar" /\ calPc = "idle"
    /\ day \in 1..Len(Days)
    /\ idx \in 0..(Len(Days[day].tasks) - 1)
    /\ checks' = Toggled(checks, Key(day, idx))
    /\ calPc' = "dirty"
    /\ UNCHANGED <<localStorage, page, idea, inputs, loading, error, plan, inflight,
                   gens, calPlan, pid, saved, arg, res>>

resetChecks ==
    /\ page = "calendar" /\ calPc = "idle"
    /\ checks' = EmptyMap
    /\ localStorage' = removeItem(localStorage, checksKey(pid))
    /\ calPc' = "dirty"
    /\ UNCHANGED <<page, idea, inputs, loading, error, plan, inflight, gens,
                   calPlan, pid, saved, arg, res>>

\* the Back button: router.push("/") unmounts CalendarPage and mounts Page anew
back ==
    /\ page = "calendar" /\ calPc = "idle"
    /\ page' = "home"
    /\ HomeOff
    /\ CalendarOff
    /\ UNCHANGED <<localStorage, inflight, gens, saved, arg, res>>

Next ==
    \/ \E v \in IdeaTexts : setIdea(v)
    \/ onGenerate
    \/ \E r \in inflight : \E out \in FetchOutcomes(r) : onGenerateResume(r, out)
    \/ clearAll
    \/ goCalendar
    \/ openCalendar
    \/ MountEffects
    \/ PersistEffect
    \/ \E c \in ToggleCells : toggle(c[1], c[2])
    \/ resetChecks
    \/ back

Spec == Init /\ [][Next]_vars

---------------------------------------------------------------------------
(* The calendar page alone, opened on any store an earlier session may have *)
(* left: no plan, a plan text that is no JSON, a plan with an id, a plan     *)
(* without an id; and under the plan's identity no entry or any earlier text *)

\* plans as stored by earlier sessions
StoredPlans ==
    {coercePlan(JObj([id |-> JStr(<<120>>), steps |-> RichSteps]), IdeaA, EmptyInputs,
                ClientId(1), NOW),
     JObj([idea |-> JStr(IdeaA), steps |-> RichSteps])}

PlanTexts == {NoItem, Garbage} \cup {JSONstringify(p) : p \in StoredPlans}

\* the store holding plan text pt and checks text ct under the identity of pt
StoreOf(pt, ct) ==
    LET withPlan == IF pt = NoItem THEN <<>> ELSE PLAN_KEY :> pt
        id == planId(safeJsonParse(pt)).v
    IN IF ct = NoItem THEN withPlan ELSE setItem(withPlan, checksKey(id), ct)

CalendarStores == {StoreOf(pt, ct) : pt \in PlanTexts, ct \in {NoItem} \cup EarlierTexts}

CalendarInit ==
    /\ localStorage \in CalendarStores
    /\ page = "calendar"
    /\ idea = <<>>
    /\ inputs = EmptyInputs
    /\ loading = FALSE
    /\ error = <<>>
    /\ plan = JNull
    /\ inflight = {}
    /\ gens = 0
    /\ calPlan = JNull
    /\ pid = LATEST
    /\ checks = EmptyMap
    /\ calPc = "mounted"
    /\ saved = NoHistory
    /\ arg = JNull
    /\ res = NotRun

CalendarNext ==
    \/ MountEffects
    \/ PersistEffect
    \/ \E c \in CalendarCells : toggle(c[1], c[2])
    \/ resetChecks
    \/ openCalendar

SpecCalendar == CalendarInit /\ [][CalendarNext]_vars

---------------------------------------------------------------------------
(* The generator page alone, opened on any store an earlier session may have *)
(* left: nothing, an entry of a calendar without a plan, or a plan with the  *)
(* checks made on its calendar                                               *)

GeneratorStores ==
    InitialStores
    \cup {StoreOf(JSONstringify(p), JSONstringify(JMap(Key(3, 1) :> JBool(TRUE)))) :
            p \in StoredPlans}

GeneratorInit ==
    /\ localStorage \in GeneratorStores
    /\ page = "home"
    /\ idea = <<>>
    /\ inputs = EmptyInputs
    /\ loading = FALSE
    /\ error = <<>>
    /\ plan = JNull
    /\ inflight = {}
    /\ gens = 0
    /\ calPlan = JNull
    /\ pid = LATEST
    /\ checks = EmptyMap
    /\ calPc = "off"
    /\ saved = NoHistory
    /\ arg = JNull
    /\ res = NotRun

GeneratorNext ==
    \/ \E v \in IdeaTexts : setIdea(v)
    \/ onGenerate
    \/ \E r \in inflight : \E out \in FetchOutcomes(r) : onGenerateResume(r, out)
    \/ clearAll

SpecGenerator == GeneratorInit /\ [][GeneratorNext]_vars

---------------------------------------------------------------------------
(* The pure functions, each applied to inputs drawn from a bounded set *)

\* the application at rest while a function is applied
AppIdle ==
    /\ localStorage = <<>>
    /\ page = "home"
    /\ idea = <<>>
    /\ inputs = EmptyInputs
    /\ loading = FALSE
    /\ error = <<>>
    /\ plan = JNull
    /\ inflight = {}
    /\ gens = 0
    /\ calPlan = JNull
    /\ pid = LATEST
    /\ checks = EmptyMap
    /\ calPc = "off"
    /\ saved = NoHistory

\* raw steps lists are tried up to this length
MaxSteps == 4

\* bullets per list of a step of a canonical plan
MaxBullets == 4

\* "- one\n2) two\n\n  three "
MultiLine ==
    <<45, 32, 111, 110, 101, 10, 50, 41, 32, 116, 119, 111, 10, 10, 32, 32, 116, 104, 114,
      101, 101, 32>>

\* " Alpha ", "Beta"
TitleAlpha == <<32, 65, 108, 112, 104, 97, 32>>
TitleBeta == <<66, 101, 116, 97>>

\* raw steps: null, a number, a step with lists, a step with bullets as one string
\* under alternate names and a title of blanks, a step with wrong-typed fields
RawSteps ==
    {JNull,
     JNum(7),
     JObj([title |-> JStr(TitleAlpha), howTo |-> StrArr(HowToBullets(2)),
           whatThisDoes |-> StrArr(WhatBullets(1))]),
     JObj([title |-> JStr(<<32, 32>>), checklist |-> JStr(MultiLine), what |-> JStr(MultiLine)]),
     JObj([title |-> JStr(TitleBeta), summary |-> JNum(3),
           howTo |-> JArr(<<JStr(<<98>>), JNum(1), JNull, JStr(<<32>>)>>),
           whatThisDoes |-> JBool(TRUE), output |-> JArr(<<>>)])}

\* the sequences over S of length at most n
RECURSIVE SeqsUpTo(_, _)
SeqsUpTo(S, n) ==
    IF n = 0 THEN {<<>>}
    ELSE SeqsUpTo(S, n - 1)
         \cup {Append(q, x) : q \in {r \in SeqsUpTo(S, n - 1) : Len(r) = n - 1}, x \in S}

\* raw payloads: not an object, an object without steps, steps of a wrong
\* type, and every steps list over RawSteps up to MaxSteps, with and without id
RawPayloads ==
    {JNull, Undefined, JNum(5), JStr(IdeaB), JArr(<<JNum(1)>>), JObj(<<>>),
     JObj([steps |-> JStr(MultiLine)]), JObj([steps |-> JNull, inputs |-> JNum(1)]),
     JObj([id |-> JNum(9), idea |-> JStr(<<32>>), steps |-> JObj(<<>>),
           inputs |-> JObj([notes |-> JStr(TitleAlpha)])])}
    \cup {JObj([steps |-> JArr(q)]) : q \in SeqsUpTo(RawSteps, MaxSteps)}
    \cup {JObj([id |-> JStr(<<120>>), idea |-> JStr(IdeaB), steps |-> JArr(q)]) :
            q \in SeqsUpTo(RawSteps, 2)}

NormalizeInit ==
    /\ AppIdle
    /\ arg \in RawPayloads
    /\ res = NotRun

\* nextPlan = coercePlan(data, ideaTrimmed, inputs)
Normalize ==
    /\ res = NotRun
    /\ res' = coercePlan(arg, IdeaA, EmptyInputs, ClientId(1), NOW)
    /\ UNCHANGED <<appVars, arg>>

SpecNormalize == NormalizeInit /\ [][Normalize]_vars

\* canonical plans: what coercePlan makes of a payload whose three steps have
\* h (howTo) and w (whatThisDoes) bullets each
BulletCounts == (0..MaxBullets) \X (0..(MaxBullets - 1))

CanonicalPlan(c1, c2, c3) ==
    coercePlan(JObj([steps |-> JArr(<<ProviderStep(TitleAlpha, c1[1], c1[2]),
                                      ProviderStep(TitleBeta, c2[1], c2[2]),
                                      ProviderStep(<<>>, c3[1], c3[2])>>)]),
               IdeaA, EmptyInputs, ClientId(1), NOW)

CanonicalPlans ==
    {CanonicalPlan(c1, c2, c3) : c1 \in BulletCounts, c2 \in BulletCounts, c3 \in BulletCounts}

DaysInit ==
    /\ AppIdle
    /\ arg \in CanonicalPlans \cup {JNull}
    /\ res = NotRun

\* days = buildDays(plan)
Derive ==
    /\ res = NotRun
    /\ res' = IF buildDaysThrows(arg) THEN Thrown ELSE [t |-> "days", v |-> buildDays(arg)]
    /\ UNCHANGED <<appVars, arg>>

SpecDays == DaysInit /\ [][Derive]_vars

\* plans for planId: every choice of id and idea among absent, "", and two
\* texts, with and without steps; and no plan
\* "", "x", the two ideas, "6k1"
IdTexts == {<<>>, <<120>>, IdeaA, IdeaB, <<54, 107, 49>>}

IdentityPlans ==
    {JNull}
    \cup {JObj(f) : f \in
            {[id |-> JStr(a), idea |-> JStr(b), steps |-> s] :
                a \in IdTexts, b \in IdTexts, s \in {JArr(<<>>), RichSteps}}
            \cup {[idea |-> JStr(b), steps |-> s] : b \in IdTexts, s \in {JArr(<<>>), RichSteps}}
            \cup {[id |-> JStr(a), steps |-> s] : a \in IdTexts, s \in {JArr(<<>>), RichSteps}}}

IdentityInit ==
    /\ AppIdle
    /\ arg \in IdentityPlans
    /\ res = NotRun

\* id = planId(p)
Identify ==
    /\ res = NotRun
    /\ res' = planId(arg)
    /\ UNCHANGED <<appVars, arg>>

SpecIdentity == IdentityInit /\ [][Identify]_vars

---------------------------------------------------------------------------
(* Bullet coercion: toStrArray and normalizeBullets applied to texts and lists *)

\* texts are tried up to this length
MaxChars == 3

\* the characters of the texts: "-", "1", ".", " ", "\n", "a"
BulletChars == {45, 49, 46, 32, 10, 97}

\* the items of the lists: texts with blanks, a marker, a line break, and
\* values that are no strings
BulletItems ==
    {JStr(<<32, 97, 32>>), JStr(<<45, 32, 97>>), JStr(<<97, 10, 98>>), JStr(<<32>>),
     JNull, JNum(7)}

BulletInputs ==
    {JStr(t) : t \in SeqsUpTo(BulletChars, MaxChars)}
    \cup {JArr(q) : q \in SeqsUpTo(BulletItems, 2)}
    \cup {JNull, JNum(7)}

BulletsInit ==
    /\ AppIdle
    /\ arg \in BulletInputs
    /\ res = NotRun

\* both coercions applied to the same value
Coerce ==
    /\ res = NotRun
    /\ res' = [t |-> "lists", toStrArray |-> toStrArray(arg),
                normalizeBullets |-> normalizeBullets(arg)]
    /\ UNCHANGED <<appVars, arg>>

SpecBullets == BulletsInit /\ [][Coerce]_vars

---------------------------------------------------------------------------
(* Claims *)

\* the strings of an array value of strings
StrsOf(a) == [i \in 1..Len(a.v) |-> a.v[i].v]

\* the raw steps of a payload, none when steps is no list
RawStepList(raw) == IF Get(raw, "steps").t = "arr" THEN Get(raw, "steps").v ELSE <<>>

IsStrValue(x) == x.t = "str"

IsStrList(x) == x.t = "arr" /\ \A i \in 1..Len(x.v) : IsStrValue(x.v[i])

\* C1: for every raw payload coercePlan returns, without throwing, a plan with
\* exactly 3 steps: the first min(3, n) raw steps in their order (a step keeps
\* its trimmed title, or gets "Step N" when it has none), then empty steps
\* titled "Step N", and nothing of the raw steps after the third.
C1_NormalizeThreeSteps ==
    res # NotRun =>
      /\ res.t = "obj"
      /\ Get(res, "steps").t = "arr"
      /\ Len(Get(res, "steps").v) = 3
      /\ \A i \in 1..3 :
           LET out == Get(res, "steps").v[i]
               n == Len(RawStepList(arg))
               rawTitle == IF i <= n THEN Get(RawStepList(arg)[i], "title") ELSE Undefined
           IN /\ out.t = "obj"
              /\ IsStrValue(Get(out, "title")) /\ IsStrValue(Get(out, "summary"))
              /\ IsStrValue(Get(out, "output"))
              /\ IsStrList(Get(out, "howTo")) /\ IsStrList(Get(out, "whatThisDoes"))
              /\ Get(out, "title").v =
                   IF rawTitle.t = "str" /\ Trim(rawTitle.v) # <<>>
                   THEN Trim(rawTitle.v) ELSE <<83, 116, 101, 112, 32, 48 + i>>
              /\ i > n =>
                   /\ Get(out, "summary").v = <<>> /\ Get(out, "output").v = <<>>
                   /\ Get(out, "howTo").v = <<>> /\ Get(out, "whatThisDoes").v = <<>>

\* a payload of four raw steps, a null among the first three, has been normalized
C1_Witness ==
    /\ res # NotRun
    /\ Len(RawStepList(arg)) = 4
    /\ \E i \in 1..3 : RawStepList(arg)[i] = JNull
    /\ RawStepList(arg)[4].t = "obj"

\* the focus the claim gives day i: the title of step 1 for days 1-4, of step 2
\* for days 5-10, of step 3 for days 11-14 (the default titles without a plan)
SegmentOf(i) == IF i <= 4 THEN 1 ELSE IF i <= 10 THEN 2 ELSE 3

FocusOf(p, k) == IF p = JNull THEN DefaultTitles[k] ELSE Get(StepsOf(p)[k], "title").v

\* C2: buildDays returns, for every canonical plan and for null, exactly 14
\* days numbered 1..14 in order, days 1-4 with the focus of step 1, days 5-10
\* of step 2, days 11-14 of step 3, however many bullets the steps have.
C2_FourteenDays ==
    res # NotRun =>
      /\ res.t = "days"
      /\ Len(res.v) = 14
      /\ \A i \in 1..14 :
           /\ res.v[i].day = i
           /\ res.v[i].focus = FocusOf(arg, SegmentOf(i))

\* days were derived from a plan whose step 1 has no bullet and step 2 has seven
C2_Witness ==
    /\ res # NotRun
    /\ arg # JNull
    /\ Len(Get(StepsOf(arg)[1], "howTo").v) + Len(Get(StepsOf(arg)[1], "whatThisDoes").v) = 0
    /\ Len(Get(StepsOf(arg)[2], "howTo").v) + Len(Get(StepsOf(arg)[2], "whatThisDoes").v) = 7

\* the task pool of step k of a canonical plan: howTo, then whatThisDoes
PoolOf(p, k) ==
    StrsOf(Get(StepsOf(p)[k], "howTo")) \o StrsOf(Get(StepsOf(p)[k], "whatThisDoes"))

\* the allocation the spec fixes, and the day before the first day of step k
Allocated(k) == IF k = 2 THEN 6 ELSE 4
FirstDayOf(k) == IF k = 1 THEN 0 ELSE IF k = 2 THEN 4 ELSE 10

\* the pool items that belong to day j (from 0) of a step with D days
ItemsOfDay(N, D, j) == {i \in 0..(N - 1) : i % D = j}

\* C3: for a step with N > 0 pool items and D days, item i is in the bucket of
\* day i mod D, at position i div D (so in pool order); a day holds as many
\* tasks as items are dealt to it (none twice, none dropped), and two days of
\* a step differ by at most one task.
C3_RoundRobin ==
    (res # NotRun /\ arg # JNull) =>
      \A k \in 1..3 :
        LET pool == PoolOf(arg, k)
            N == Len(pool)
            D == Allocated(k)
            tasksOf(j) == res.v[FirstDayOf(k) + j + 1].tasks
        IN N > 0 =>
             /\ \A i \in 0..(N - 1) : tasksOf(i % D)[(i \div D) + 1] = pool[i + 1]
             /\ \A j \in 0..(D - 1) :
                  ItemsOfDay(N, D, j) # {} => Len(tasksOf(j)) = Cardinality(ItemsOfDay(N, D, j))
             /\ \A j1, j2 \in 0..(D - 1) :
                  Cardinality(ItemsOfDay(N, D, j1)) - Cardinality(ItemsOfDay(N, D, j2)) \in {-1, 0, 1}

\* days were derived from a plan whose step 1 has 7 items for 4 days and whose
\* step 2 has 7 items for 6 days
C3_Witness ==
    /\ res # NotRun
    /\ arg # JNull
    /\ Len(PoolOf(arg, 1)) = 7
    /\ Len(PoolOf(arg, 2)) = 7
    /\ Len(res.v[1].tasks) = 2
    /\ Len(res.v[6].tasks) = 1

\* C4: a step with 0 < N <= D pool items gives day i (from 0) exactly the task
\* pool[i] for i < N and exactly the filler task for i >= N; and no day of any
\* calendar has an empty task list.
C4_OneTaskOrFiller ==
    res # NotRun =>
      /\ \A d \in 1..Len(res.v) : res.v[d].tasks # <<>>
      /\ arg # JNull =>
           \A k \in 1..3 :
             LET pool == PoolOf(arg, k)
                 N == Len(pool)
                 D == Allocated(k)
             IN (N > 0 /\ N <= D) =>
                  \A i \in 0..(D - 1) :
                    res.v[FirstDayOf(k) + i + 1].tasks =
                      IF i < N THEN <<pool[i + 1]>>
                      ELSE << <<69, 120, 101, 99, 117, 116, 101, 32, 116, 104, 101, 32, 110,
                                101, 120, 116, 32, 98, 101, 115, 116, 32, 97, 99, 116, 105,
                                111, 110, 32, 102, 114, 111, 109, 32, 116, 104, 105, 115, 32,
                                115, 116, 101, 112, 46>> >>

\* days were derived from a plan with 4 howTo bullets alone in step 1 and 3
\* bullets in step 2
C4_Witness ==
    /\ res # NotRun
    /\ arg # JNull
    /\ Len(Get(StepsOf(arg)[1], "howTo").v) = 4
    /\ Len(Get(StepsOf(arg)[1], "whatThisDoes").v) = 0
    /\ Len(PoolOf(arg, 2)) = 3

\* C5: without a plan the 14 days hold only items of the canned list of their
\* step position, one list item per day in list order, no day is empty and no
\* filler is used; a step of a plan whose pool is empty gets the same days.
C5_CannedFallback ==
    res # NotRun =>
      \A k \in 1..3 :
        (arg = JNull \/ PoolOf(arg, k) = <<>>) =>
          \A i \in 1..Allocated(k) :
            LET tasks == res.v[FirstDayOf(k) + i].tasks
            IN /\ tasks # <<>>
               /\ \A t \in 1..Len(tasks) :
                    /\ \E c \in 1..Len(Fallbacks[k]) : tasks[t] = Fallbacks[k][c]
                    /\ tasks[t] # FILLER
               /\ tasks = <<Fallbacks[k][i]>>

\* days were derived without a plan
C5_Witness ==
    /\ res # NotRun
    /\ arg = JNull
    /\ res.t = "days"

\* the base string the claim names: id if non-empty, else idea if non-empty,
\* else "latest"
ClaimedBase(p) ==
    IF Get(p, "id").t = "str" /\ Get(p, "id").v # <<>> THEN Get(p, "id").v
    ELSE IF Get(p, "idea").t = "str" /\ Get(p, "idea").v # <<>> THEN Get(p, "idea").v
    ELSE <<108, 97, 116, 101, 115, 116>>

\* the unsigned hex digests of 32-bit FNV-1a, computed outside the model:
\* "x" fd0c5087, "latest" 41704246, "Coffee cart" f3a340f5,
\* "Coffee Cart" 7376f4d5, "6k1" 20ad5
KnownDigest(base) ==
    CASE base = <<120>> -> <<102, 100, 48, 99, 53, 48, 56, 55>>
      [] base = <<108, 97, 116, 101, 115, 116>> -> <<52, 49, 55, 48, 52, 50, 52, 54>>
      [] base = <<67, 111, 102, 102, 101, 101, 32, 99, 97, 114, 116>> ->
           <<102, 51, 97, 51, 52, 48, 102, 53>>
      [] base = <<67, 111, 102, 102, 101, 101, 32, 67, 97, 114, 116>> ->
           <<55, 51, 55, 54, 102, 52, 100, 53>>
      [] base = <<54, 107, 49>> -> <<50, 48, 97, 100, 53>>

\* C9: planId is "plan_" followed by the unsigned hex 32-bit FNV-1a hash of one
\* base string: the id if non-empty, else the idea if non-empty, else
\* "latest".  So plans with the same id share the identity whatever their idea
\* or steps, and the ideas "Coffee cart" and "Coffee Cart" differ.
C9_Identity ==
    res # NotRun =>
      /\ res = JStr(<<112, 108, 97, 110, 95>> \o KnownDigest(ClaimedBase(arg)))
      /\ \A q \in IdentityPlans :
           (Truthy(Get(arg, "id")) /\ Get(q, "id") = Get(arg, "id")) => planId(q) = res
      /\ planId(JObj([idea |-> JStr(IdeaA)])) # planId(JObj([idea |-> JStr(IdeaB)]))

\* the identity of a plan with id "x", idea "Coffee Cart" and steps was computed
C9_Witness ==
    /\ res # NotRun
    /\ Get(arg, "id") = JStr(<<120>>)
    /\ Get(arg, "idea") = JStr(IdeaB)
    /\ StepsOf(arg) # <<>>

\* C6: once a reset is fully processed (the handler and the persist effect it
\* triggers), the in-memory mapping is empty and the store holds no entry
\* under the checks key of the plan identity.
C6_ResetLeavesNoEntry ==
    [][(page = "calendar" /\ calPc = "dirty" /\ checks = EmptyMap /\ calPc' = "idle")
         => (checks' = EmptyMap /\ checksKey(pid') \notin DOMAIN localStorage')]_vars

\* C7: a toggle of (day, idx) flips the boolean read at key d{day}_t{idx}, an
\* absent key counting as false (its first toggle stores true); it stores a
\* boolean, leaves every other key as it was, and a second toggle of the same
\* cell gives back the boolean the key had before.
C7_ToggleFlips ==
    [][\A c \in CalendarCells :
         toggle(c[1], c[2]) =>
           LET k == Key(c[1], c[2])
           IN /\ Checked(checks', c[1], c[2]) = ~Checked(checks, c[1], c[2])
              /\ Prop(checks', k).t = "bool"
              /\ Prop(checks, k) = Undefined => Prop(checks', k) = JBool(TRUE)
              /\ Checked(Toggled(checks', k), c[1], c[2]) = Checked(checks, c[1], c[2])
              /\ \A o \in CalendarCells :
                   o # c => Prop(checks', Key(o[1], o[2])) = Prop(checks, Key(o[1], o[2]))]_vars

\* a key that was set has been toggled off again, another key still being set
C7_Witness ==
    /\ page = "calendar"
    /\ calPc = "dirty"
    /\ Prop(checks, Key(3, 1)) = JBool(FALSE)
    /\ Prop(checks, Key(14, 0)) = JBool(TRUE)

\* a mapping whose values are all booleans
IsBoolMap(x) == x.t = "map" /\ \A k \in DOMAIN x.v : x.v[k].t = "bool"

\* C8: after the load on mount, when the entry under the checks key of the
\* plan identity is absent, is no JSON text, or parses to something that is no
\* key-to-boolean mapping, the in-memory completion state is the empty mapping.
C8_CorruptLoadsEmpty ==
    (page = "calendar" /\ calPc = "loaded") =>
      LET text == getItem(localStorage, checksKey(pid))
      IN (text.kind # "json" \/ ~IsBoolMap(text.val)) => checks = EmptyMap

FailedOutcome(out) ==
    \/ out.kind = "reject"
    \/ out.kind = "response" /\ (~out.resp.ok \/ ~Truthy(out.resp.data))

\* C11: a generation attempt that fails (empty idea: no request is sent; a
\* thrown transport error, a response that is not OK, an unparseable body)
\* leaves the whole local store, the in-memory plan and the form as they were;
\* of the page's state only the error message and the busy flag change: the
\* message is set and the flag is off afterwards.
C11_FailedGenerationFrame ==
    [][/\ (onGenerate /\ Trim(idea) = <<>>) =>
            /\ UNCHANGED <<localStorage, plan, idea, inputs, inflight, gens, loading>>
            /\ error' # <<>>
       /\ \A r \in inflight \ inflight' : \A out \in FetchOutcomes(r) :
            (FailedOutcome(out) /\ onGenerateResume(r, out)) =>
              /\ UNCHANGED <<localStorage, plan, idea, inputs, calPlan, pid, checks>>
              /\ Live(r) => (~loading' /\ error' # <<>>)]_vars

\* a request has failed after an earlier one succeeded: the plan of the earlier
\* one is still shown and stored, next to the error message
C11_Witness ==
    /\ page = "home"
    /\ inflight = {}
    /\ ~loading
    /\ error = MSG_FAILED_TO_FETCH
    /\ ~IsNullish(plan)
    /\ getItem(localStorage, PLAN_KEY) = JSONstringify(plan)

\* list.join("\n")
RECURSIVE JoinNL(_)
JoinNL(q) ==
    IF q = <<>> THEN <<>>
    ELSE IF Len(q) = 1 THEN q[1]
    ELSE q[1] \o <<10>> \o JoinNL(Tail(q))

\* no item of the list starts with a bullet or numbering marker
NoLeadingMarker(q) == \A i \in 1..Len(q) : MarkerRun(q[i]) = 0

\* C12: for every input x (a list or a string) whose coerced items do not
\* start with a marker, coercing the items joined by line breaks gives the
\* same list again, and the coerced list holds no empty string; for the
\* coercion of the generator page and for that of the calendar.
C12_CoercionIdempotent ==
    (res # NotRun /\ arg.t \in {"str", "arr"}) =>
      /\ NoLeadingMarker(res.toStrArray) =>
           /\ toStrArray(JStr(JoinNL(res.toStrArray))) = res.toStrArray
           /\ \A i \in 1..Len(res.toStrArray) : res.toStrArray[i] # <<>>
      /\ NoLeadingMarker(res.normalizeBullets) =>
           /\ normalizeBullets(JStr(JoinNL(res.normalizeBullets))) = res.normalizeBullets
           /\ \A i \in 1..Len(res.normalizeBullets) : res.normalizeBullets[i] # <<>>

\* the line as the claim leaves it: a leading run of marker characters is
\* removed, with the blanks after it, only when a blank follows the run
ClaimedStrip(line) ==
    LET k == MarkerRun(line)
    IN IF k > 0 /\ k < Len(line) /\ IsSpace(line[k + 1])
       THEN TrimStart(SubSeq(line, k + 1, Len(line)))
       ELSE line

\* the list the claim gives for a text
ClaimedLines(s) ==
    LET ls == FilterNonEmpty([i \in 1..Len(SplitNL(s)) |-> Trim(SplitNL(s)[i])])
    IN [i \in 1..Len(ls) |-> ClaimedStrip(ls[i])]

\* C17: for a single string, coercion splits on line breaks, trims each line,
\* drops the empty lines, and removes from the start of a remaining line only
\* a marker that is followed by whitespace; a line whose first token is no
\* such marker (a number or hyphen attached to the text) comes out unchanged.
C17_StripsOnlyMarkers ==
    (res # NotRun /\ arg.t = "str") =>
      /\ res.toStrArray = ClaimedLines(arg.v)
      /\ res.normalizeBullets = ClaimedLines(arg.v)

\* the entry under key read as the load effect reads it: absent, unparseable
\* or falsy counts as the empty mapping
ReadChecks(ls, key) ==
    LET v == safeJsonParse(getItem(ls, key))
    IN IF Truthy(v) THEN v ELSE EmptyMap

\* C13: the persisted completion mapping under any checks key changes only
\* while the calendar of that identity is shown, by the reset handler or by
\* the write that follows a toggle or a reset; generating, failing, clearing
\* the plan, mounting and leaving the calendar leave it as it was, and a
\* mount loads the mapping last persisted for the identity.
C13_PersistedChecksFrame ==
    [][/\ \A k \in (DOMAIN localStorage \cup DOMAIN localStorage') \ {PLAN_KEY} :
            ReadChecks(localStorage', k) # ReadChecks(localStorage, k) =>
              /\ page = "calendar"
              /\ k = checksKey(pid)
              /\ calPc = "dirty" \/ resetChecks
       /\ (calPc = "mounted" /\ calPc' = "loaded" /\ pid' \in DOMAIN saved.byPid) =>
            checks' = saved.byPid[pid']]_vars

\* the calendar of a plan is mounted again and has loaded the checks made on
\* it before, after the generator page was shown in between
C13_Witness ==
    /\ page = "calendar"
    /\ calPc = "loaded"
    /\ ~IsNullish(calPlan)
    /\ pid \in DOMAIN saved.byPid
    /\ checks = saved.byPid[pid]
    /\ Prop(checks, Key(3, 1)) = JBool(TRUE)

\* C14: a toggle changes the in-memory mapping first; the next thing that
\* happens on the page is one write of that full mapping under the checks key
\* of the plan identity, and only then is another toggle (or any other change
\* of the mapping) processed: whenever the mapping changes in memory, the
\* mapping before the change was the persisted one, and whenever the page is
\* at rest the persisted mapping equals the one in memory.
C14_WriteThrough ==
    [][/\ (\E c \in CalendarCells : toggle(c[1], c[2])) =>
            /\ checks' # checks
            /\ localStorage' = localStorage
            /\ calPc' = "dirty"
       /\ (calPc = "dirty" /\ calPc' # "dirty") =>
            /\ calPc' = "idle"
            /\ checks' = checks
            /\ localStorage' = setItem(localStorage, checksKey(pid), JSONstringify(checks))
       /\ (checks' # checks /\ calPc # "mounted") =>
            getItem(localStorage, checksKey(pid)) = JSONstringify(checks)
       /\ calPc' = "idle" =>
            getItem(localStorage', checksKey(pid')) = JSONstringify(checks')]_vars

\* two toggles have been processed, each written before the next: the page is
\* at rest with both keys set, in memory and in the store
C14_Witness ==
    /\ page = "calendar"
    /\ calPc = "idle"
    /\ Prop(checks, Key(3, 0)) = JBool(TRUE)
    /\ Prop(checks, Key(3, 1)) = JBool(TRUE)
    /\ getItem(localStorage, checksKey(pid)) = JSONstringify(checks)

\* C15: at most one generation request is awaited at any time, and while one
\* is awaited the busy flag of the generator page is on (so that the generate
\* button is disabled), whatever the user did in between: generate, clear,
\* going to the calendar and back.
C15_SingleRequestInFlight ==
    /\ Cardinality(inflight) <= 1
    /\ (page = "home" /\ inflight # {}) => loading

\* C16: when the answer to a request arrives after the user has left the
\* generator page that sent it, nothing in the local store changes.
C16_LateResponseDiscarded ==
    [][(\E r \in inflight : ~Live(r) /\ r \notin inflight') =>
         localStorage' = localStorage]_vars

\* C18: a clear leaves no latest plan in the store and none in memory, and
\* the answer to a request that was sent before the clear does not bring one
\* back: both stay empty until a request sent after the clear succeeds.
C18_ClearIsFinal ==
    [][/\ clearAll => (plan' = JNull /\ PLAN_KEY \notin DOMAIN localStorage')
       /\ (/\ plan = JNull
           /\ PLAN_KEY \notin DOMAIN localStorage
           /\ \E r \in inflight : r.beforeClear /\ inflight' = inflight \ {r})
          => (plan' = JNull /\ PLAN_KEY \notin DOMAIN localStorage')]_vars

====
